---- MODULE Spec2Model ----
(***************************************************************************)
(* SnipLink: an in-memory URL shortener (main.go).                         *)
(*                                                                         *)
(* Strings of the program are sequences of one-character strings, so that  *)
(* indexing, slicing and concatenation are those of Go.  The character "é" *)
(* stands for one non-ASCII character (two bytes, C3 A9, in UTF-8).        *)
(***************************************************************************)
EXTENDS Integers, Sequences, FiniteSets, TLC

VARIABLES
    urlMap,     \* main.go:17  the global map short code -> original URL
    req,        \* the request the last handler call served
    resp,       \* what that handler wrote to its http.ResponseWriter
    calls,      \* the calls that handler made, in order
    rnd,        \* the rand.Intn results consumed, one 6-sequence per generateShortCode call
    codes,      \* the values generateShortCode returned, in call order
    hist,       \* history: short code -> the original URL of the latest successful
                \* shorten that generated it, and whether that code was generated
                \* before for another URL
    inflight,   \* concurrent serving: goroutine -> its request and position
    crashed     \* concurrent serving: the runtime aborted the process

vars == <<urlMap, req, resp, calls, rnd, codes, hist, inflight, crashed>>

----------------------------------------------------------------------------
(* Bounds of the model.                                                    *)

\* Outcomes of the random source one handler call may see.
NumDraws == 2
\* Outcomes of the random source a direct call of generateShortCode may see.
NumGenDraws == 10
\* Requests in flight at once under concurrent serving.
NumGoroutines == 2
\* Successive direct calls of generateShortCode (three in main_test.go:30-32).
NumCalls == 3

----------------------------------------------------------------------------
(* Strings.                                                                *)

HasPrefix(s, p) == Len(s) >= Len(p) /\ SubSeq(s, 1, Len(p)) = p

HasSuffix(s, p) == Len(s) >= Len(p) /\ SubSeq(s, Len(s) - Len(p) + 1, Len(s)) = p

\* strings.Index for a one-character needle: the first position, 0 when absent.
Index(s, c) ==
    IF \E i \in 1..Len(s) : s[i] = c
    THEN CHOOSE i \in 1..Len(s) : s[i] = c /\ \A j \in 1..(i - 1) : s[j] # c
    ELSE 0

\* strings.LastIndex for a one-character needle: the last position, 0 when absent.
LastIndex(s, c) ==
    IF \E i \in 1..Len(s) : s[i] = c
    THEN CHOOSE i \in 1..Len(s) : s[i] = c /\ \A j \in (i + 1)..Len(s) : s[j] # c
    ELSE 0

Range(s) == {s[i] : i \in 1..Len(s)}

----------------------------------------------------------------------------
(* generateShortCode (main.go:96-103).                                     *)

CodeLen == 6

chars ==
    << "a","b","c","d","e","f","g","h","i","j","k","l","m",
       "n","o","p","q","r","s","t","u","v","w","x","y","z",
       "A","B","C","D","E","F","G","H","I","J","K","L","M",
       "N","O","P","Q","R","S","T","U","V","W","X","Y","Z",
       "0","1","2","3","4","5","6","7","8","9" >>

\* One character of the code: chars[rand.Intn(len(chars))], r the value drawn,
\* a number of 0..len(chars)-1.
PickChar(r) == chars[r + 1]

\* Mutant of generateShortCode: the loop stops one character early.
generateShortCodeShort(draws) == [i \in 1..(CodeLen - 1) |-> PickChar(draws[i])]

\* Mutant of generateShortCode: make([]byte, 0, 6), so the loop never runs.
generateShortCodeEmpty(draws) == << >>

\* Mutant of generateShortCode: chars[i] in place of chars[rand.Intn(len(chars))].
generateShortCodeByIndex(draws) == [i \in 1..CodeLen |-> chars[i]]

\* The loop of generateShortCode over draws, the six values rand.Intn returned.
generateShortCode(draws) == [i \in 1..CodeLen |-> PickChar(draws[i])]

\* The k-th outcome of the random source the model explores: six values of
\* Intn(len(chars)).  The outcomes reach both ends of chars and its three
\* character classes.
Draws(k) == [i \in 1..CodeLen |-> ((k - 1) * 37 + (i - 1) * (62 - k)) % Len(chars)]

HandlerDraws == {Draws(k) : k \in 1..NumDraws}

GenDraws == {Draws(k) : k \in 1..NumGenDraws}

----------------------------------------------------------------------------
(* Request bodies and json.NewDecoder(r.Body).Decode(&urlPair)             *)
(* (main.go:63-64).  A body is the sequence of the texts it is made of:    *)
(*   object       {"original": "<u>"}                                      *)
(*   emptyObject  {}                                                       *)
(*   null         null                                                     *)
(*   badType      {"original": 5}                                          *)
(*   array        [1]                                                      *)
(*   junk         text that is no JSON value, such as: invalid json        *)
(* separated by white space.                                               *)

\* Original URLs a client may send: empty, absolute with an authority,
\* relative, and an absolute URL holding a non-ASCII character.
OriginalURLs ==
    { << >>,
      <<"h", ":", "/", "/", "h">>,
      <<"h">>,
      <<"h", ":", "é">> }

Chunk(kind, original) == [kind |-> kind, original |-> original]

Junk == Chunk("junk", << >>)

ValueChunks ==
    {Chunk("object", u) : u \in OriginalURLs}
        \cup {Chunk(k, << >>) : k \in {"emptyObject", "null", "badType", "array"}}

\* Empty, one text, or a JSON object followed by more text.
Bodies ==
    {<< >>} \cup {<<c>> : c \in ValueChunks \cup {Junk}}
        \cup {<<Chunk("object", << >>), Junk>>, <<Chunk("badType", << >>), Junk>>}

\* json.Valid: the body as a whole is one JSON value.
WellFormedJSON(body) == Len(body) = 1 /\ body[1].kind # "junk"

\* Decode reads the next JSON value of the stream, here the first, into a
\* URLPair and leaves what follows it unread.  An empty stream is io.EOF, junk a
\* SyntaxError, a value of the wrong Go type an UnmarshalTypeError; null and
\* an object without the field leave Original at its zero value.
Decode(body) ==
    IF body = << >> THEN [err |-> "EOF", Original |-> << >>]
    ELSE LET c == body[1] IN
         CASE c.kind = "junk" -> [err |-> "SyntaxError", Original |-> << >>]
           [] c.kind \in {"badType", "array"} ->
                [err |-> "UnmarshalTypeError", Original |-> << >>]
           [] c.kind = "object" -> [err |-> "nil", Original |-> c.original]
           [] OTHER -> [err |-> "nil", Original |-> << >>]

----------------------------------------------------------------------------
(* http.Redirect(w, r, originalURL, http.StatusTemporaryRedirect)          *)
(* (main.go:90): the Location header net/http writes for a target.         *)

Letters == {chars[i] : i \in 1..52}

Digits == {chars[i] : i \in 53..62}

NonASCII == {"é"}

\* url.getScheme: the scheme before the first ":", when only letters (and, after
\* the first character, digits, "+", "-", ".") come before it.
RECURSIVE SchemeScan(_, _)
SchemeScan(raw, i) ==
    IF i > Len(raw) THEN [err |-> FALSE, scheme |-> << >>, rest |-> raw]
    ELSE CASE raw[i] \in Letters -> SchemeScan(raw, i + 1)
           [] raw[i] \in Digits \cup {"+", "-", "."} ->
                IF i = 1 THEN [err |-> FALSE, scheme |-> << >>, rest |-> raw]
                ELSE SchemeScan(raw, i + 1)
           [] raw[i] = ":" ->
                IF i = 1 THEN [err |-> TRUE, scheme |-> << >>, rest |-> raw]
                ELSE [err |-> FALSE, scheme |-> SubSeq(raw, 1, i - 1),
                      rest |-> SubSeq(raw, i + 1, Len(raw))]
           [] OTHER -> [err |-> FALSE, scheme |-> << >>, rest |-> raw]

getScheme(raw) == SchemeScan(raw, 1)

\* url.Parse on the texts of the model (no "#", "%", "@", "[" or control
\* character): the scheme, and whether parsing fails.  It fails on a missing
\* scheme before ":", on a colon in the first segment of a relative path, and
\* on a port that is not a number.
urlParse(raw) ==
    LET s    == getScheme(raw)
        q    == Index(s.rest, "?")
        rest == IF q = 0 THEN s.rest ELSE SubSeq(s.rest, 1, q - 1)
        seg  == IF Index(rest, "/") = 0 THEN rest
                ELSE SubSeq(rest, 1, Index(rest, "/") - 1)
        auth == LET a == SubSeq(rest, 3, Len(rest))
                IN IF Index(a, "/") = 0 THEN a ELSE SubSeq(a, 1, Index(a, "/") - 1)
        port == SubSeq(auth, LastIndex(auth, ":") + 1, Len(auth))
    IN  IF s.err THEN [err |-> TRUE, Scheme |-> << >>]
        ELSE IF ~HasPrefix(rest, <<"/">>) /\ s.scheme = << >> /\ ":" \in Range(seg)
             THEN [err |-> TRUE, Scheme |-> << >>]
        ELSE IF HasPrefix(rest, <<"/", "/">>) /\ LastIndex(auth, ":") # 0
                /\ ~(Range(port) \subseteq Digits)
             THEN [err |-> TRUE, Scheme |-> << >>]
        ELSE [err |-> FALSE, Scheme |-> s.scheme]

\* path.Split: the directory of a path, up to and including its last slash.
pathDir(p) == SubSeq(p, 1, LastIndex(p, "/"))

\* path.Clean of a rooted path: empty and "." elements dropped, ".." taking
\* the element before it, single slashes between what remains.
RECURSIVE CleanFrom(_, _, _, _)
CleanFrom(p, i, elem, out) ==
    LET push == IF elem = << >> \/ elem = <<".">> THEN out
                ELSE IF elem = <<".", ".">>
                     THEN (IF out = << >> THEN out ELSE SubSeq(out, 1, Len(out) - 1))
                     ELSE Append(out, elem)
    IN  IF i > Len(p) THEN push
        ELSE IF p[i] = "/" THEN CleanFrom(p, i + 1, << >>, push)
        ELSE CleanFrom(p, i + 1, Append(elem, p[i]), out)

RECURSIVE JoinRooted(_)
JoinRooted(elems) ==
    IF elems = << >> THEN << >>
    ELSE <<"/">> \o Head(elems) \o JoinRooted(Tail(elems))

pathClean(p) ==
    LET elems == CleanFrom(p, 1, << >>, << >>)
    IN  IF elems = << >> THEN <<"/">> ELSE JoinRooted(elems)

\* http.hexEscapeNonASCII: every byte of a non-ASCII character as %XX.
RECURSIVE hexEscapeNonASCII(_)
hexEscapeNonASCII(s) ==
    IF s = << >> THEN << >>
    ELSE (IF Head(s) \in NonASCII THEN <<"%", "C", "3", "%", "A", "9">> ELSE <<Head(s)>>)
             \o hexEscapeNonASCII(Tail(s))

\* The target http.Redirect sends: a target that parses and has no scheme is
\* made absolute against the request path and cleaned (its query and its
\* trailing slash kept); any other target is kept as given.
RedirectTarget(url, oldpath) ==
    LET u == urlParse(url) IN
    IF u.err \/ u.Scheme # << >> THEN url
    ELSE LET abs      == IF url = << >> \/ url[1] # "/" THEN pathDir(oldpath) \o url
                         ELSE url
             q        == Index(abs, "?")
             path     == IF q = 0 THEN abs ELSE SubSeq(abs, 1, q - 1)
             query    == IF q = 0 THEN << >> ELSE SubSeq(abs, q, Len(abs))
             cleaned  == pathClean(path)
             slashed  == IF HasSuffix(path, <<"/">>) /\ ~HasSuffix(cleaned, <<"/">>)
                         THEN cleaned \o <<"/">> ELSE cleaned
         IN  slashed \o query

Location(url, oldpath) == hexEscapeNonASCII(RedirectTarget(url, oldpath))

----------------------------------------------------------------------------
(* The map and the responses.                                              *)

\* Mutant of Store: an existing entry is kept (first write wins).
StoreIfAbsent(m, k, v) == IF k \in DOMAIN m THEN m ELSE (k :> v) @@ m

\* urlMap[shortCode] = original (main.go:70): insert, or overwrite.
Store(m, k, v) == (k :> v) @@ m

\* Mutant of Lookup: the second result is ignored, every key "exists".
LookupUnchecked(m, k) ==
    [exists |-> TRUE, value |-> IF k \in DOMAIN m THEN m[k] ELSE << >>]

\* originalURL, exists := urlMap[shortCode] (main.go:84): the zero value when absent.
Lookup(m, k) ==
    [exists |-> k \in DOMAIN m, value |-> IF k \in DOMAIN m THEN m[k] ELSE << >>]

\* Mutant of MethodNotAllowed: the comparison is inverted.
MethodNotAllowedInverted(method) == method = "POST"

\* r.Method != http.MethodPost (main.go:58).
MethodNotAllowed(method) == method # "POST"

\* Mutant of PathKey: the leading slash is kept.
PathKeyWithSlash(path) == path

\* shortCode := r.URL.Path[1:] (main.go:82).
PathKey(path) == SubSeq(path, 2, Len(path))

BaseURL ==
    << "h","t","t","p",":","/","/","l","o","c","a","l","h","o","s","t",
       ":","8","0","8","0","/" >>

\* Mutant of ShortURL: the slash after the port is missing.
ShortURLNoSlash(shortCode) == SubSeq(BaseURL, 1, Len(BaseURL) - 1) \o shortCode

\* "http://localhost:8080/" + shortCode (main.go:74).
ShortURL(shortCode) == BaseURL \o shortCode

StatusOK == 200
StatusTemporaryRedirect == 307
StatusBadRequest == 400
StatusNotFound == 404
StatusMethodNotAllowed == 405

\* http.Error: a plain-text body (the message and a newline) under the status.
httpError(msg, code) ==
    [status  |-> code,
     headers |-> ("Content-Type" :> "text/plain; charset=utf-8")
                    @@ ("X-Content-Type-Options" :> "nosniff"),
     body    |-> [text |-> msg]]

\* main.go:72-78: the JSON object written with the implicit status 200.
shortenOK(shortCode) ==
    [status  |-> StatusOK,
     headers |-> ("Content-Type" :> "application/json"),
     body    |-> [short_code |-> shortCode, short_url |-> ShortURL(shortCode)]]

\* main.go:90: the redirect response.  A GET is also given a short HTML body
\* that links to the target.
redirectTo(url, method, path) ==
    [status  |-> StatusTemporaryRedirect,
     headers |-> IF method = "GET"
                 THEN ("Location" :> Location(url, path))
                          @@ ("Content-Type" :> "text/html; charset=utf-8")
                 ELSE ("Location" :> Location(url, path)),
     body    |-> IF method = "GET"
                 THEN [href |-> RedirectTarget(url, path), text |-> "Temporary Redirect"]
                 ELSE [text |-> ""]]

NoRequest == [handler |-> "none", method |-> "", path |-> << >>, body |-> << >>]

NoResponse == [status |-> 0, headers |-> << >>, body |-> [text |-> ""]]

----------------------------------------------------------------------------
(* Requests.                                                               *)

Methods == {"POST", "GET"}

ShortenPath == <<"/", "s", "h", "o", "r", "t", "e", "n">>

HandlerCodes == {generateShortCode(d) : d \in HandlerDraws}

\* A well-formed code no run of the model generates.
UnknownCode == generateShortCode(Draws(NumDraws + 1))

\* Paths of redirect requests: the root, every code, an unknown code and the
\* path of the test.
RedirectPaths ==
    {<<"/">> \o k : k \in HandlerCodes \cup
        {<< >>, UnknownCode, <<"n","o","n","e","x","i","s","t","e","n","t">>}}

----------------------------------------------------------------------------
(* Sequential serving: one handler call per step.                          *)

Init ==
    /\ urlMap = << >>
    /\ req = NoRequest
    /\ resp = NoResponse
    /\ calls = << >>
    /\ rnd = << >>
    /\ codes = << >>
    /\ hist = << >>
    /\ inflight = << >>
    /\ crashed = FALSE

\* shortenHandler (main.go:57-79) on a request; draws is what rand.Intn
\* returns if generateShortCode is reached.
shortenHandler(method, body, draws) ==
    /\ req' = [handler |-> "shortenHandler", method |-> method,
               path |-> ShortenPath, body |-> body]
    /\ IF MethodNotAllowed(method)
       THEN /\ resp' = httpError("Method not allowed", StatusMethodNotAllowed)
            /\ calls' = <<"http.Error">>
            /\ rnd' = << >>
            /\ codes' = << >>
            /\ UNCHANGED <<urlMap, hist>>
       ELSE LET urlPair == Decode(body) IN
            IF urlPair.err # "nil"
            THEN /\ resp' = httpError("Invalid request body", StatusBadRequest)
                 /\ calls' = <<"Decode", "http.Error">>
                 /\ rnd' = << >>
                 /\ codes' = << >>
                 /\ UNCHANGED <<urlMap, hist>>
            ELSE LET shortCode == generateShortCode(draws) IN
                 /\ urlMap' = Store(urlMap, shortCode, urlPair.Original)
                 /\ resp' = shortenOK(shortCode)
                 /\ calls' = <<"Decode", "generateShortCode", "Encode">>
                 /\ rnd' = <<draws>>
                 /\ codes' = <<shortCode>>
                 /\ hist' = [c \in DOMAIN hist \cup {shortCode} |->
                                IF c # shortCode THEN hist[c]
                                ELSE [url |-> urlPair.Original,
                                      collided |-> /\ c \in DOMAIN hist
                                                   /\ \/ hist[c].collided
                                                      \/ hist[c].url # urlPair.Original]]
    /\ UNCHANGED <<inflight, crashed>>

\* redirectHandler (main.go:81-91) on a request.
redirectHandler(method, path) ==
    /\ req' = [handler |-> "redirectHandler", method |-> method,
               path |-> path, body |-> << >>]
    /\ LET shortCode == PathKey(path)
           found     == Lookup(urlMap, shortCode)
       IN  IF ~found.exists
           THEN /\ resp' = httpError("Short code not found", StatusNotFound)
                /\ calls' = <<"http.Error">>
           ELSE /\ resp' = redirectTo(found.value, method, path)
                /\ calls' = <<"http.Redirect">>
    /\ rnd' = << >>
    /\ codes' = << >>
    /\ UNCHANGED <<urlMap, hist, inflight, crashed>>

\* A request that is rejected draws nothing from the random source.
ShortenRequest ==
    \E method \in Methods, body \in Bodies :
        \E draws \in IF MethodNotAllowed(method) \/ Decode(body).err # "nil"
                      THEN {Draws(1)} ELSE HandlerDraws :
            shortenHandler(method, body, draws)

RedirectRequest ==
    \E method \in Methods, path \in RedirectPaths : redirectHandler(method, path)

Next == ShortenRequest \/ RedirectRequest

Spec == Init /\ [][Next]_vars

----------------------------------------------------------------------------
(* Properties of sequential serving.                                       *)

\* The lookup key a redirect request names: its path after the leading slash.
KeyOf(r) == SubSeq(r.path, 2, Len(r.path))

\* The request the last step served was a POST to shortenHandler whose body
\* is exactly {"original": u}.
ShortenOf(r) ==
    /\ r.handler = "shortenHandler"
    /\ r.method = "POST"
    /\ WellFormedJSON(r.body)
    /\ r.body[1].kind = "object"

\* u carries a URL scheme and only ASCII characters.
AbsoluteASCII(u) == getScheme(u).scheme # << >> /\ Range(u) \cap NonASCII = {}

\* A successful shorten of u is followed at once by the redirect for its code.
RoundTrip ==
    /\ ShortenOf(req)
    /\ resp.status = StatusOK
    /\ req'.handler = "redirectHandler"
    /\ req'.path = <<"/">> \o resp.body.short_code

\* C1 as stated: a successful shorten of any original URL u followed at once
\* by the redirect for the returned code is answered with 307 and a Location
\* header equal to u.
C1_RoundTripAnyURL ==
    [][RoundTrip =>
          /\ resp'.status = StatusTemporaryRedirect
          /\ resp'.headers["Location"] = req.body[1].original]_vars

\* C1 as amended: that redirect is always answered with 307 and carries a
\* Location header, and the header equals u when u has a URL scheme and only
\* ASCII characters.
C1_RoundTrip ==
    [][RoundTrip =>
          /\ resp'.status = StatusTemporaryRedirect
          /\ "Location" \in DOMAIN resp'.headers
          /\ AbsoluteASCII(req.body[1].original) =>
                resp'.headers["Location"] = req.body[1].original]_vars

C1_Witness ==
    /\ req.handler = "redirectHandler"
    /\ resp.status = StatusTemporaryRedirect
    /\ KeyOf(req) \in DOMAIN hist
    /\ AbsoluteASCII(hist[KeyOf(req)].url)
    /\ resp.headers["Location"] = hist[KeyOf(req)].url

\* C2: a POST to shortenHandler with body {"original": u} is answered with
\* 200, short_code the code c just generated and short_url
\* "http://localhost:8080/" followed by c; afterwards urlMap maps c to u and
\* every other key to the value it had before.
C2_ShortenStores ==
    [][ShortenOf(req') =>
          /\ Len(codes') = 1
          /\ resp'.status = StatusOK
          /\ resp'.body = [short_code |-> codes'[1],
                           short_url  |-> BaseURL \o codes'[1]]
          /\ DOMAIN urlMap' = DOMAIN urlMap \cup {codes'[1]}
          /\ urlMap'[codes'[1]] = req'.body[1].original
          /\ \A k \in DOMAIN urlMap \ {codes'[1]} : urlMap'[k] = urlMap[k]]_vars

C2_Witness ==
    /\ ShortenOf(req)
    /\ resp.status = StatusOK
    /\ Cardinality(DOMAIN urlMap) >= 2
    /\ urlMap[resp.body.short_code] = req.body[1].original
    /\ req.body[1].original # << >>

\* C3: a redirect request whose key is not in urlMap is answered with 404 and
\* "Short code not found", carries no Location header and leaves urlMap as it
\* was; a request whose key is in urlMap is never answered with 404.
C3_UnknownCodeNotFound ==
    [][req'.handler = "redirectHandler" =>
          /\ urlMap' = urlMap
          /\ KeyOf(req') \notin DOMAIN urlMap =>
                /\ resp'.status = StatusNotFound
                /\ resp'.body = [text |-> "Short code not found"]
                /\ "Location" \notin DOMAIN resp'.headers
          /\ KeyOf(req') \in DOMAIN urlMap => resp'.status # StatusNotFound]_vars

C3_Witness ==
    /\ req.handler = "redirectHandler"
    /\ urlMap # << >>
    /\ KeyOf(req) = UnknownCode
    /\ KeyOf(req) \notin DOMAIN urlMap
    /\ resp.status = StatusNotFound

\* C4: a request to shortenHandler whose method is not POST is answered with
\* 405 and "Method not allowed" whatever its body; the body is not decoded, no
\* short code is generated and urlMap is left as it was.
C4_NonPostRejected ==
    [][(req'.handler = "shortenHandler" /\ req'.method # "POST") =>
          /\ resp'.status = StatusMethodNotAllowed
          /\ resp'.body = [text |-> "Method not allowed"]
          /\ calls' = <<"http.Error">>
          /\ codes' = << >>
          /\ urlMap' = urlMap]_vars

C4_Witness ==
    /\ req.handler = "shortenHandler"
    /\ req.method = "GET"
    /\ ShortenOf([req EXCEPT !.method = "POST"])
    /\ urlMap # << >>
    /\ resp.status = StatusMethodNotAllowed

\* C5 as stated: a POST to shortenHandler whose body is malformed JSON is
\* answered with 400 and "Invalid request body", generates no short code and
\* leaves urlMap as it was; a POST is answered with 200 only if its body
\* decoded without error.
C5_MalformedRejected ==
    [][(req'.handler = "shortenHandler" /\ req'.method = "POST") =>
          /\ ~WellFormedJSON(req'.body) =>
                /\ resp'.status = StatusBadRequest
                /\ resp'.body = [text |-> "Invalid request body"]
                /\ codes' = << >>
                /\ urlMap' = urlMap
          /\ resp'.status = StatusOK => Decode(req'.body).err = "nil"]_vars

\* C7: the empty string is never a key of urlMap, so a redirect request for
\* the root path "/" is answered with 404.
C7_RootMisses ==
    /\ << >> \notin DOMAIN urlMap
    /\ (req.handler = "redirectHandler" /\ req.path = <<"/">>) =>
            resp.status = StatusNotFound

C7_Witness ==
    /\ req.handler = "redirectHandler"
    /\ req.path = <<"/">>
    /\ urlMap # << >>
    /\ resp.status = StatusNotFound

\* The map holds, for every code generated so far, the URL of the latest
\* successful shorten that generated it, and a redirect for such a code is the
\* 307 that http.Redirect writes for that URL.
LastWriteWins ==
    /\ DOMAIN hist \subseteq DOMAIN urlMap
    /\ \A c \in DOMAIN hist : urlMap[c] = hist[c].url
    /\ (req.handler = "redirectHandler" /\ KeyOf(req) \in DOMAIN hist) =>
            /\ resp.status = StatusTemporaryRedirect
            /\ resp.headers["Location"] = Location(hist[KeyOf(req)].url, req.path)

\* C9: entries are never deleted and a collision is last write wins: after
\* every request each generated code is a key of urlMap mapped to the URL of
\* the latest successful shorten that generated it, a redirect for it goes
\* there, and neither a redirect nor a rejected shorten changes urlMap.
C9_LastWriteWins ==
    /\ []LastWriteWins
    /\ [][/\ DOMAIN urlMap \subseteq DOMAIN urlMap'
          /\ (req'.handler = "redirectHandler" \/ resp'.status # StatusOK) =>
                 urlMap' = urlMap]_vars

C9_Witness ==
    /\ req.handler = "redirectHandler"
    /\ KeyOf(req) \in DOMAIN hist
    /\ hist[KeyOf(req)].collided
    /\ resp.status = StatusTemporaryRedirect
    /\ resp.headers["Location"] = hist[KeyOf(req)].url

----------------------------------------------------------------------------
(* Shortening under the wider set of random outcomes: POSTs of one URL.    *)

CodesShorten ==
    \E draws \in GenDraws :
        shortenHandler("POST", <<Chunk("object", <<"h", ":", "/", "/", "h">>)>>, draws)

SpecCodes == Init /\ [][CodesShorten]_vars

AlphaNumeric ==
    { "a","b","c","d","e","f","g","h","i","j","k","l","m",
      "n","o","p","q","r","s","t","u","v","w","x","y","z",
      "A","B","C","D","E","F","G","H","I","J","K","L","M",
      "N","O","P","Q","R","S","T","U","V","W","X","Y","Z",
      "0","1","2","3","4","5","6","7","8","9" }

IsSixAlphaNumeric(code) == Len(code) = 6 /\ \A i \in 1..Len(code) : code[i] \in AlphaNumeric

\* C6: every value generateShortCode returns has exactly 6 characters, each
\* one of a-z, A-Z, 0-9, and so has every key of urlMap.
C6_CodeShape ==
    /\ \A i \in 1..Len(codes) : IsSixAlphaNumeric(codes[i])
    /\ \A k \in DOMAIN urlMap : IsSixAlphaNumeric(k)

\* The last call drew both ends of chars (0 and 61), and the map holds keys
\* with lower-case letters, upper-case letters and digits.
C6_Witness ==
    /\ Len(codes) = 1
    /\ {0, 61} \subseteq Range(rnd[1])
    /\ {"a", "9"} \subseteq Range(codes[1])
    /\ Cardinality(DOMAIN urlMap) >= 3
    /\ \E k \in DOMAIN urlMap : Range(k) \cap {chars[i] : i \in 27..52} # {}
    /\ \E k \in DOMAIN urlMap : Range(k) \cap {chars[i] : i \in 2..26} # {}

----------------------------------------------------------------------------
(* Direct calls of generateShortCode, one after another.                   *)

CallGenerate ==
    /\ Len(codes) < NumCalls
    /\ \E draws \in GenDraws :
          /\ rnd' = Append(rnd, draws)
          /\ codes' = Append(codes, generateShortCode(draws))
    /\ calls' = Append(calls, "generateShortCode")
    /\ UNCHANGED <<urlMap, req, resp, hist, inflight, crashed>>

SpecGen == Init /\ [][CallGenerate]_vars

----------------------------------------------------------------------------
(* Concurrent serving: net/http runs each request's handler in a goroutine *)
(* of its own (main.go:52), so the steps of handlers interleave.  A map    *)
(* access takes time: a handler is inside it from Begin to End.            *)

Goroutines == 1..NumGoroutines

ConcURLs == {<<"h", ":", "/", "/", "h">>, <<"h">>}

ConcDraws == {Draws(1), Draws(2)}

ConcRequests ==
    {[handler |-> "shortenHandler", method |-> "POST", path |-> ShortenPath,
      body |-> <<Chunk("object", u)>>] : u \in ConcURLs}
    \cup {[handler |-> "shortenHandler", method |-> "GET", path |-> ShortenPath,
           body |-> << >>]}
    \cup {[handler |-> "redirectHandler", method |-> "GET",
           path |-> <<"/">> \o generateShortCode(d), body |-> << >>] : d \in ConcDraws}

At(g, pc) == g \in DOMAIN inflight /\ inflight[g].pc = pc

Writing(g) == At(g, "writing")

Reading(g) == At(g, "reading")

\* A write to urlMap overlaps a read of it or another write to it.
Race ==
    \E g, h \in DOMAIN inflight : g # h /\ Writing(g) /\ (Writing(h) \/ Reading(h))

Move(g, pc, shortCode, original, response) ==
    inflight' = [inflight EXCEPT ![g] =
                    [req |-> @.req, pc |-> pc, shortCode |-> shortCode,
                     original |-> original, resp |-> response]]

\* The server accepts a request and starts a goroutine for it.
Accept(g) ==
    /\ ~crashed
    /\ g \notin DOMAIN inflight
    /\ \E r \in ConcRequests :
          inflight' = (g :> [req |-> r, pc |-> "start", shortCode |-> << >>,
                             original |-> << >>, resp |-> NoResponse]) @@ inflight
    /\ UNCHANGED <<urlMap, req, resp, calls, rnd, codes, hist, crashed>>

\* shortenHandler up to its map write (main.go:58-69).
ShortenStart(g) ==
    /\ ~crashed
    /\ At(g, "start")
    /\ inflight[g].req.handler = "shortenHandler"
    /\ LET r == inflight[g].req
           urlPair == Decode(r.body)
       IN  IF MethodNotAllowed(r.method)
           THEN Move(g, "done", << >>, << >>,
                     httpError("Method not allowed", StatusMethodNotAllowed))
           ELSE IF urlPair.err # "nil"
           THEN Move(g, "done", << >>, << >>,
                     httpError("Invalid request body", StatusBadRequest))
           ELSE \E draws \in ConcDraws :
                   Move(g, "write", generateShortCode(draws), urlPair.Original,
                        NoResponse)
    /\ UNCHANGED <<urlMap, req, resp, calls, rnd, codes, hist, crashed>>

\* Mutant of BeginWrite: a mutex is held around every access of urlMap.
BeginWriteLocked(g) ==
    /\ ~crashed
    /\ At(g, "write")
    /\ \A h \in DOMAIN inflight : ~Writing(h) /\ ~Reading(h)
    /\ Move(g, "writing", inflight[g].shortCode, inflight[g].original, NoResponse)
    /\ UNCHANGED <<urlMap, req, resp, calls, rnd, codes, hist, crashed>>

\* urlMap[shortCode] = urlPair.Original begins (main.go:70): nothing is locked
\* and nothing is waited for.
BeginWrite(g) ==
    /\ ~crashed
    /\ At(g, "write")
    /\ Move(g, "writing", inflight[g].shortCode, inflight[g].original, NoResponse)
    /\ UNCHANGED <<urlMap, req, resp, calls, rnd, codes, hist, crashed>>

\* The write ends and the response is written (main.go:70-78).  A write that
\* overlapped another access is a data race: the entry may be lost.
EndWrite(g) ==
    /\ ~crashed
    /\ Writing(g)
    /\ \/ urlMap' = Store(urlMap, inflight[g].shortCode, inflight[g].original)
       \/ Race /\ urlMap' = urlMap
    /\ Move(g, "done", inflight[g].shortCode, inflight[g].original,
            shortenOK(inflight[g].shortCode))
    /\ UNCHANGED <<req, resp, calls, rnd, codes, hist, crashed>>

\* redirectHandler up to its map read (main.go:82).
RedirectStart(g) ==
    /\ ~crashed
    /\ At(g, "start")
    /\ inflight[g].req.handler = "redirectHandler"
    /\ Move(g, "read", PathKey(inflight[g].req.path), << >>, NoResponse)
    /\ UNCHANGED <<urlMap, req, resp, calls, rnd, codes, hist, crashed>>

\* originalURL, exists := urlMap[shortCode] begins (main.go:84), unlocked.
BeginRead(g) ==
    /\ ~crashed
    /\ At(g, "read")
    /\ Move(g, "reading", inflight[g].shortCode, << >>, NoResponse)
    /\ UNCHANGED <<urlMap, req, resp, calls, rnd, codes, hist, crashed>>

\* The read ends and the response is written (main.go:84-90).  A read that
\* overlaps a write is a data race: it may see the map before or after it.
EndRead(g) ==
    /\ ~crashed
    /\ Reading(g)
    /\ \E m \in {urlMap} \cup
                {Store(urlMap, inflight[h].shortCode, inflight[h].original) :
                    h \in {w \in DOMAIN inflight : Writing(w)}} :
          LET found == Lookup(m, inflight[g].shortCode) IN
          Move(g, "done", inflight[g].shortCode, found.value,
               IF ~found.exists
               THEN httpError("Short code not found", StatusNotFound)
               ELSE redirectTo(found.value, inflight[g].req.method,
                               inflight[g].req.path))
    /\ UNCHANGED <<urlMap, req, resp, calls, rnd, codes, hist, crashed>>

\* The handler has returned; its goroutine ends.
Finish(g) ==
    /\ ~crashed
    /\ At(g, "done")
    /\ inflight' = [h \in DOMAIN inflight \ {g} |-> inflight[h]]
    /\ UNCHANGED <<urlMap, req, resp, calls, rnd, codes, hist, crashed>>

\* The runtime's check of the map's writing flag notices a racing access and
\* aborts the process ("fatal error: concurrent map writes", "concurrent map
\* read and map write").
Fatal ==
    /\ ~crashed
    /\ Race
    /\ crashed' = TRUE
    /\ UNCHANGED <<urlMap, req, resp, calls, rnd, codes, hist, inflight>>

NextConc ==
    \/ \E g \in Goroutines :
          \/ Accept(g)
          \/ ShortenStart(g)
          \/ BeginWrite(g)
          \/ EndWrite(g)
          \/ RedirectStart(g)
          \/ BeginRead(g)
          \/ EndRead(g)
          \/ Finish(g)
    \/ Fatal

SpecConc == Init /\ [][NextConc]_vars

\* C10: urlMap is accessed with no lock or other mutual exclusion: while the
\* process runs, a handler that has reached its map write or its map read can
\* begin it whatever the other handlers are doing, so a write can overlap a
\* read or another write.
C10_NoMutualExclusion ==
    ~crashed =>
        \A g \in DOMAIN inflight :
            /\ At(g, "write") => ENABLED BeginWrite(g)
            /\ At(g, "read") => ENABLED BeginRead(g)

C10_Witness ==
    /\ Cardinality(DOMAIN inflight) >= 2
    /\ Race
    /\ \E g \in DOMAIN inflight : At(g, "write") \/ At(g, "read") \/ Writing(g)

====
